---- MODULE Spec2Model ----
\* Model of packages/bridge/src/runtime/composables/router.ts:
\* navigateTo, abortNavigation, convertToLegacyMiddleware,
\* isProcessingMiddleware, defineNuxtRouteMiddleware, addRouteMiddleware.
\*
\* URLs are sequences of tokens (<<"https:", "//example.com">>), so that the
\* protocol tests of `ufo` are computed on the text of the URL.
\* JavaScript runs each synchronous call to completion: `last` holds the record
\* of the operation that has just run, and Return hands control back to the
\* event loop before the next operation starts.
EXTENDS Integers, Sequences, FiniteSets, TLC

VARIABLES
  client,      \* process.client / import.meta.client of the bundle
  dev,         \* process.dev of the bundle
  flag,        \* nuxtApp._processingMiddleware is set
  inv,         \* the adapted middleware invocations: pc, and whether another one overlapped it
  middleware,  \* nuxtApp._middleware: [global, named]
  last         \* the record of the operation that has just run

vars == <<client, dev, flag, inv, middleware, last>>

\* ------------------------------------------------------------------ bounds
NumInvocations == 2
MaxGlobal == 3

Invocations == 1..NumInvocations

\* ------------------------------------------------------------------ URLs (ufo)
ScriptProtocols == {"blob:", "data:", "javascript:", "vbscript:"}

Protocols == ScriptProtocols \cup {"https:", "mailto:"}

\* hasProtocol(toPath, { acceptRelative }) of ufo: a leading protocol, or a leading //
hasProtocol(url, acceptRelative) ==
  /\ Len(url) > 0
  /\ \/ Head(url) \in Protocols
     \/ acceptRelative /\ Head(url) = "//"

\* parseURL(toPath).protocol of ufo: the leading protocol, '' when there is none
parseURLProtocol(url) ==
  IF Len(url) > 0 /\ Head(url) \in Protocols THEN Head(url) ELSE ""

isScriptProtocol(protocol) == protocol \in ScriptProtocols

\* ------------------------------------------------------------------ RawLocation
NoTokens == <<>>

StringLocation(tokens) ==
  [type |-> "string", path |-> tokens, query |-> NoTokens, hash |-> NoTokens]

ObjectLocation(path, query, hash) ==
  [type |-> "object", path |-> path, query |-> query, hash |-> hash]

NullLocation ==
  [type |-> "null", path |-> NoTokens, query |-> NoTokens, hash |-> NoTokens]

\* the string '/'
Slash == StringLocation(<<"/">>)

\* the values navigateTo is called with
Locations ==
  { NullLocation,
    StringLocation(<<"/about">>),
    StringLocation(<<"//", "evil.example">>),
    StringLocation(<<"https:", "//example.com">>),
    StringLocation(<<"javascript:", "alert(1)">>),
    StringLocation(<<"data:", "text/html,x">>),
    ObjectLocation(<<"/about">>, <<"?a=1">>, <<"#top">>),
    ObjectLocation(NoTokens, NoTokens, NoTokens),
    ObjectLocation(<<"javascript:", "alert(1)">>, NoTokens, NoTokens) }

\* !to : null, undefined and '' are falsy, every object is truthy
IsFalsyLocation(to) ==
  \/ to.type = "null"
  \/ to.type = "string" /\ to.path = NoTokens

\* if (!to) { to = '/' }
NormalizeTo(to) == IF IsFalsyLocation(to) THEN Slash ELSE to

\* withQuery(path, query): the query is appended to the path
withQuery(path, query) == path \o query

\* typeof to === 'string' ? to : withQuery(to.path || '/', to.query || {}) + (to.hash || '')
ToPath(to) ==
  IF to.type = "string"
    THEN to.path
    ELSE withQuery(IF to.path = NoTokens THEN <<"/">> ELSE to.path, to.query) \o to.hash

\* ------------------------------------------------------------------ NavigateToOptions
NoRedirectCode == 0

DefaultRedirectCode == 302

RedirectCodes == {NoRedirectCode, 301}

\* open stands for options.open being given
NavigateToOptions ==
  [external : BOOLEAN, replace : BOOLEAN, open : BOOLEAN, redirectCode : RedirectCodes]

\* ------------------------------------------------------------------ isProcessingMiddleware
\* a broken test: the final `return false` returns true
isProcessingMiddleware_alwaysTrue(ctxAvailable, processing) == TRUE

\* useNuxtApp() throws when no app context is available, which the catch turns into true
isProcessingMiddleware(ctxAvailable, processing) ==
  IF ~ctxAvailable THEN TRUE ELSE processing

\* ------------------------------------------------------------------ navigateTo
\* one call on the window, the location, the router, the hook system or h3
Effect(op, to, url, status) == [op |-> op, to |-> to, url |-> url, status |-> status]

NoEffect == Effect("none", NullLocation, NoTokens, 0)

NavigationOps == {"open", "location.href", "location.replace", "sendRedirect",
                  "router.push", "router.replace"}

NavOutcome(thrown, returned, value, effects, hook, redirect) ==
  [thrown |-> thrown, returned |-> returned, value |-> value,
   effects |-> effects, hook |-> hook, redirect |-> redirect]

NavThrows(error) == NavOutcome(error, "none", NullLocation, <<>>, "none", NoEffect)

\* useRuntimeConfig().app.baseURL
baseURL == <<"/app">>

joinURL(base, path) == base \o path

\* options?.redirectCode || 302
RedirectStatus(options) ==
  IF options.redirectCode # NoRedirectCode THEN options.redirectCode ELSE DefaultRedirectCode

\* a broken server branch: the redirect is sent without waiting for the hook
ServerRedirect_sendsBeforeHook(to, toPath, isExternal, options) ==
  LET redirectLocation == IF isExternal THEN toPath ELSE joinURL(baseURL, ToPath(to))
      send == Effect("sendRedirect", to, redirectLocation, RedirectStatus(options))
  IN NavOutcome("none", "promise", NullLocation,
                <<send, Effect("callHook", to, <<"app:redirected">>, 0)>>, "pending", send)

\* nuxtApp.callHook('app:redirected').then(() => sendRedirect(event, redirectLocation, code))
ServerRedirect(to, toPath, isExternal, options) ==
  LET redirectLocation == IF isExternal THEN toPath ELSE joinURL(baseURL, ToPath(to))
  IN NavOutcome("none", "promise", NullLocation,
                <<Effect("callHook", to, <<"app:redirected">>, 0)>>, "pending",
                Effect("sendRedirect", to, redirectLocation, RedirectStatus(options)))

\* a broken short-circuit: navigateTo ignores isProcessingMiddleware()
ShortCircuits_never(isClient, isExternal, ctxAvailable, processing) == FALSE

\* process.client && !isExternal && isProcessingMiddleware()
ShortCircuits(isClient, isExternal, ctxAvailable, processing) ==
  isClient /\ ~isExternal /\ isProcessingMiddleware(ctxAvailable, processing)

\* navigateTo(to, options) in a bundle (isClient), called where the app context is
\* available or not, with or without an SSR event, while the flag is `processing`
NavigateTo(to0, options, isClient, ctxAvailable, hasEvent, processing) ==
  LET to == NormalizeTo(to0)
      toPath == ToPath(to)
      isExternal == options.external \/ hasProtocol(toPath, TRUE)
      protocol == parseURLProtocol(toPath)
  IN IF options.open /\ isClient
       THEN NavOutcome("none", "promise", NullLocation,
                       <<Effect("open", to, toPath, 0)>>, "none", NoEffect)
     ELSE IF isExternal /\ ~options.external
       THEN NavThrows("Navigating to an external URL is not allowed by default.")
     ELSE IF isExternal /\ protocol # "" /\ isScriptProtocol(protocol)
       THEN NavThrows("Cannot navigate to a URL with this protocol.")
     ELSE IF ShortCircuits(isClient, isExternal, ctxAvailable, processing)
       THEN NavOutcome("none", "to", to, <<>>, "none", NoEffect)
     ELSE IF ~ctxAvailable
       THEN NavThrows("nuxt app instance unavailable")
     ELSE IF ~isClient /\ hasEvent
       THEN ServerRedirect(to, toPath, isExternal, options)
     ELSE IF isExternal
       THEN NavOutcome("none", "promise", NullLocation,
                       <<Effect(IF options.replace THEN "location.replace" ELSE "location.href",
                                to, toPath, 0)>>, "none", NoEffect)
     ELSE NavOutcome("none", "router", NullLocation,
                     <<Effect(IF options.replace THEN "router.replace" ELSE "router.push",
                              to, toPath, 0)>>, "none", NoEffect)

\* ------------------------------------------------------------------ abortNavigation
NuxtError(message, fatal) == [message |-> message, fatal |-> fatal]

NoError == NuxtError("", FALSE)

UsageError ==
  NuxtError("abortNavigation() is only usable inside a route middleware handler.", FALSE)

AppUnavailableError == NuxtError("nuxt app instance unavailable", FALSE)

\* err?: string | Partial<NuxtError>
AbortArg(type, message, fatal) == [type |-> type, message |-> message, fatal |-> fatal]

AbortArgs ==
  { AbortArg("undefined", "", FALSE),
    AbortArg("string", "forbidden", FALSE),
    AbortArg("object", "denied", FALSE),
    AbortArg("object", "crashed", TRUE) }

\* !err
IsFalsyArg(err) == err.type = "undefined" \/ (err.type = "string" /\ err.message = "")

\* createError(err): the message of the string or of the object, fatal when the object says so
createError(err) == NuxtError(err.message, err.type = "object" /\ err.fatal)

AbortOutcome(thrown, error, returned, shown) ==
  [thrown |-> thrown, error |-> error, returned |-> returned, showError |-> shown]

\* abortNavigation(err)
AbortNavigation(err, isDev, ctxAvailable, processing) ==
  IF isDev /\ ~isProcessingMiddleware(ctxAvailable, processing)
    THEN AbortOutcome(TRUE, UsageError, "none", <<>>)
  ELSE IF IsFalsyArg(err)
    THEN AbortOutcome(FALSE, NoError, "false", <<>>)
  ELSE IF createError(err).fatal /\ ~ctxAvailable
    THEN AbortOutcome(TRUE, AppUnavailableError, "none", <<>>)
  ELSE AbortOutcome(TRUE, createError(err), "none",
                    IF createError(err).fatal THEN <<createError(err)>> ELSE <<>>)

\* ------------------------------------------------------------------ RouteMiddlewareReturn
\* void | Error | string | Location | boolean | Route
MiddlewareResult(type, bool, to, error) ==
  [type |-> type, bool |-> bool, to |-> to, error |-> error]

UndefinedResult == MiddlewareResult("undefined", FALSE, NullLocation, NoError)

BooleanResult(b) == MiddlewareResult("boolean", b, NullLocation, NoError)

LocationResult(to) == MiddlewareResult("location", FALSE, to, NoError)

ErrorResult(error) == MiddlewareResult("Error", FALSE, NullLocation, error)

RouteMiddlewareReturn ==
  { UndefinedResult, BooleanResult(FALSE), BooleanResult(TRUE),
    LocationResult(StringLocation(<<"/login">>)),
    LocationResult(ObjectLocation(<<"/login">>, NoTokens, NoTokens)),
    ErrorResult(NuxtError("not allowed", FALSE)) }

\* result instanceof Error
IsError(result) == result.type = "Error"

\* if (result)
IsTruthy(result) ==
  \/ result.type = "boolean" /\ result.bool
  \/ result.type = "location" /\ ~IsFalsyLocation(result.to)
  \/ result.type = "Error"

\* how the wrapped middleware function ends: it returns (resolves to) a value or throws (rejects)
Returned(value) == [threw |-> FALSE, value |-> value, error |-> NoError]

Threw(error) == [threw |-> TRUE, value |-> UndefinedResult, error |-> error]

\* `return abortNavigation(err)`: the wrapped function returns its result or lets it throw
ViaAbort(abort) ==
  IF abort.thrown THEN Threw(abort.error) ELSE Returned(BooleanResult(FALSE))

\* ------------------------------------------------------------------ convertToLegacyMiddleware
\* what follows `await callWithNuxt(...)` in the adapted middleware: a rejection leaves the
\* async function at the await; otherwise the flag is deleted and the result is mapped
\* onto ctx.error / ctx.redirect
LegacyContinuation(outcome) ==
  IF outcome.threw
    THEN [rejected |-> TRUE, reason |-> outcome.error, deletesFlag |-> FALSE,
          ctxError |-> <<>>, ctxRedirect |-> <<>>]
  ELSE IF IsError(outcome.value)
    THEN [rejected |-> FALSE, reason |-> NoError, deletesFlag |-> TRUE,
          ctxError |-> <<outcome.value.error>>, ctxRedirect |-> <<>>]
  ELSE IF IsTruthy(outcome.value)
    THEN [rejected |-> FALSE, reason |-> NoError, deletesFlag |-> TRUE,
          ctxError |-> <<>>, ctxRedirect |-> <<outcome.value>>]
  ELSE [rejected |-> FALSE, reason |-> NoError, deletesFlag |-> TRUE,
        ctxError |-> <<>>, ctxRedirect |-> <<>>]

\* ------------------------------------------------------------------ the middleware registry
Fns == {"auth", "log"}

Names == {"a", "b"}

\* a new-style middleware function, as the caller supplies it
RouteMiddleware(fn) == [fn |-> fn, legacy |-> FALSE]

NoMiddleware == [fn |-> "", legacy |-> FALSE]

convertToLegacyMiddleware(mw) == [fn |-> mw.fn, legacy |-> TRUE]

defineNuxtRouteMiddleware(mw) == convertToLegacyMiddleware(mw)

\* the first argument of addRouteMiddleware: a name or the middleware itself
NameArg(str) == [type |-> "string", str |-> str, fn |-> NoMiddleware]

FunctionArg(mw) == [type |-> "function", str |-> "", fn |-> mw]

\* a broken registration: the named middleware is stored as supplied
addRouteMiddleware_namedUnwrapped(reg, name, mw, global) ==
  IF global \/ name.type = "function"
    THEN [reg EXCEPT !.global = Append(@, IF name.type = "function" THEN name.fn ELSE mw)]
    ELSE [reg EXCEPT !.named[name.str] = mw]

\* addRouteMiddleware(name, middleware, options) on the registry reg; global is options.global
addRouteMiddleware(reg, name, mw, global) ==
  IF global \/ name.type = "function"
    THEN [reg EXCEPT !.global = Append(@, IF name.type = "function" THEN name.fn ELSE mw)]
    ELSE [reg EXCEPT !.named[name.str] = convertToLegacyMiddleware(mw)]

\* ------------------------------------------------------------------ state
NoCall == [kind |-> "none"]

Idle == [pc |-> "idle", overlapped |-> FALSE]

Running(i) == inv[i].pc = "running"

Init ==
  /\ client \in BOOLEAN
  /\ dev \in BOOLEAN
  /\ flag = FALSE
  /\ inv = [i \in Invocations |-> Idle]
  /\ middleware = [global |-> <<>>, named |-> [n \in Names |-> NoMiddleware]]
  /\ last = NoCall

\* ------------------------------------------------------------------ adapted middleware
\* a broken start: the flag is not set before the wrapped function is called
MiddlewareStart_flagNotSet(i) ==
  /\ last.kind = "none"
  /\ inv[i].pc = "idle"
  /\ inv' = [j \in Invocations |->
               IF j = i THEN [pc |-> "running", overlapped |-> \E k \in Invocations : Running(k)]
               ELSE IF Running(j) THEN [inv[j] EXCEPT !.overlapped = TRUE]
               ELSE inv[j]]
  /\ UNCHANGED <<client, dev, flag, middleware, last>>

\* the host calls an adapted middleware: the flag is set and the wrapped function is called.
\* overlapped records that two invocations were in progress at the same time.
MiddlewareStart(i) ==
  /\ last.kind = "none"
  /\ inv[i].pc = "idle"
  /\ flag' = TRUE
  /\ inv' = [j \in Invocations |->
               IF j = i THEN [pc |-> "running", overlapped |-> \E k \in Invocations : Running(k)]
               ELSE IF Running(j) THEN [inv[j] EXCEPT !.overlapped = TRUE]
               ELSE inv[j]]
  /\ UNCHANGED <<client, dev, middleware, last>>

\* the wrapped function of invocation i ends with `outcome` and the adapted middleware
\* resumes after its await
MiddlewareSettle(i, outcome, viaAbort, abortArg) ==
  LET k == LegacyContinuation(outcome)
  IN /\ last.kind = "none"
     /\ Running(i)
     /\ flag' = IF k.deletesFlag THEN FALSE ELSE flag
     /\ inv' = [inv EXCEPT ![i] = Idle]
     /\ last' = [kind |-> "middleware", id |-> i, viaAbort |-> viaAbort, abortArg |-> abortArg,
                 outcome |-> outcome, rejected |-> k.rejected, reason |-> k.reason,
                 ctxError |-> k.ctxError, ctxRedirect |-> k.ctxRedirect]
     /\ UNCHANGED <<client, dev, middleware>>

\* the wrapped function returns (or resolves to) a value
MiddlewareReturn(i) ==
  \E r \in RouteMiddlewareReturn :
    MiddlewareSettle(i, Returned(r), FALSE, AbortArg("undefined", "", FALSE))

\* the wrapped function throws (or rejects with) an error of its own
MiddlewareThrow(i) ==
  MiddlewareSettle(i, Threw(NuxtError("boom", FALSE)), FALSE, AbortArg("undefined", "", FALSE))

\* the wrapped function is `() => abortNavigation(err)`
MiddlewareAbort(i) ==
  \E err \in AbortArgs, ctxAvailable \in BOOLEAN :
    MiddlewareSettle(i, ViaAbort(AbortNavigation(err, dev, ctxAvailable, flag)), TRUE, err)

\* ------------------------------------------------------------------ calls of the composables
\* navigateTo is called, inside a middleware or elsewhere; an SSR event exists only on the
\* server and only with the app
NavigateCall ==
  \E to \in Locations, options \in NavigateToOptions,
     ctxAvailable \in BOOLEAN, hasEvent \in BOOLEAN :
    /\ last.kind = "none"
    /\ hasEvent => (ctxAvailable /\ ~client)
    /\ last' = [kind |-> "navigateTo", to |-> to, options |-> options,
                ctxAvailable |-> ctxAvailable, hasEvent |-> hasEvent,
                out |-> NavigateTo(to, options, client, ctxAvailable, hasEvent, flag)]
    /\ UNCHANGED <<client, dev, flag, inv, middleware>>

\* the promise of the 'app:redirected' hook resolves: the redirect is sent
HookResolve ==
  /\ last.kind = "navigateTo"
  /\ last.out.hook = "pending"
  /\ last' = [last EXCEPT !.out.hook = "resolved",
                          !.out.effects = Append(@, last.out.redirect)]
  /\ UNCHANGED <<client, dev, flag, inv, middleware>>

\* the promise of the hook rejects: nothing is sent
HookReject ==
  /\ last.kind = "navigateTo"
  /\ last.out.hook = "pending"
  /\ last' = [last EXCEPT !.out.hook = "rejected"]
  /\ UNCHANGED <<client, dev, flag, inv, middleware>>

\* abortNavigation is called and its caller handles the result (a component, a plugin, or
\* a middleware that goes on)
AbortCall ==
  \E err \in AbortArgs, ctxAvailable \in BOOLEAN :
    /\ last.kind = "none"
    /\ last' = [kind |-> "abortNavigation", err |-> err, ctxAvailable |-> ctxAvailable,
                out |-> AbortNavigation(err, dev, ctxAvailable, flag)]
    /\ UNCHANGED <<client, dev, flag, inv, middleware>>

\* the operation has run to its end (a hook that is still pending never resolves)
Return ==
  /\ last.kind # "none"
  /\ last' = NoCall
  /\ UNCHANGED <<client, dev, flag, inv, middleware>>

\* addRouteMiddleware(middleware)
AddRouteMiddlewareFunction ==
  \E f \in Fns :
    /\ Len(middleware.global) < MaxGlobal
    /\ middleware' = addRouteMiddleware(middleware, FunctionArg(RouteMiddleware(f)),
                                        NoMiddleware, FALSE)
    /\ UNCHANGED <<client, dev, flag, inv, last>>

\* addRouteMiddleware(name, middleware, { global })
AddRouteMiddlewareNamed ==
  \E n \in Names, f \in Fns, global \in BOOLEAN :
    /\ global => Len(middleware.global) < MaxGlobal
    /\ middleware' = addRouteMiddleware(middleware, NameArg(n), RouteMiddleware(f), global)
    /\ UNCHANGED <<client, dev, flag, inv, last>>

\* ------------------------------------------------------------------ specifications
Next ==
  \/ \E i \in Invocations : MiddlewareStart(i)
  \/ \E i \in Invocations : MiddlewareReturn(i)
  \/ \E i \in Invocations : MiddlewareThrow(i)
  \/ \E i \in Invocations : MiddlewareAbort(i)
  \/ NavigateCall
  \/ HookResolve
  \/ HookReject
  \/ AbortCall
  \/ Return

Spec == Init /\ [][Next]_vars

NextRegistry ==
  \/ AddRouteMiddlewareFunction
  \/ AddRouteMiddlewareNamed

SpecRegistry == Init /\ [][NextRegistry]_vars

\* ------------------------------------------------------------------ properties
\* the positions of the navigation effects among the effects of a call
NavigationEffects(effects) ==
  {k \in 1..Len(effects) : effects[k].op \in NavigationOps}

EffectsOf(effects, ops) ==
  {k \in 1..Len(effects) : effects[k].op \in ops}

\* the URL text of the target of the call in `last`
LastToPath == ToPath(NormalizeTo(last.to))

LastIsExternal == last.options.external \/ hasProtocol(LastToPath, TRUE)

AnyInvocationInProgress == \E i \in Invocations : Running(i)

\* C1: a navigateTo call toward a script-protocol target, with any options and on either
\* side, performs no navigation effect and throws instead: the 'Cannot navigate to a URL
\* with ... protocol' error once the call has opted in with external: true (without the
\* opt-in the external check of C2 throws first).
C1_NoNavigationTowardScriptProtocol ==
  (last.kind = "navigateTo" /\ isScriptProtocol(parseURLProtocol(LastToPath)))
    => /\ NavigationEffects(last.out.effects) = {}
       /\ last.out.thrown # "none"
       /\ last.options.external =>
            last.out.thrown = "Cannot navigate to a URL with this protocol."

\* C2: a navigateTo call whose target has a protocol (or is protocol-relative) and whose
\* options.external is not set throws the 'Navigating to an external URL is not allowed by
\* default' error and performs no effect, whatever the other options are.
C2_ExternalWithoutOptInThrows ==
  (last.kind = "navigateTo" /\ hasProtocol(LastToPath, TRUE) /\ ~last.options.external)
    => /\ last.out.effects = <<>>
       /\ last.out.thrown = "Navigating to an external URL is not allowed by default."

\* C3: an adapted middleware whose wrapped function returns abortNavigation(...) or lets
\* its exception propagate ends with ctx.error called or with a rejection.
C3_AbortNavigationSignalsAbort ==
  (last.kind = "middleware" /\ last.viaAbort)
    => (Len(last.ctxError) > 0 \/ last.rejected)

\* the result of defineNuxtRouteMiddleware for the middleware functions callers supply
AdaptedMiddleware == {defineNuxtRouteMiddleware(RouteMiddleware(f)) : f \in Fns}

SuppliedMiddleware == {RouteMiddleware(f) : f \in Fns}

StoredGlobal == {middleware.global[k] : k \in 1..Len(middleware.global)}

StoredNamed == {middleware.named[n] : n \in Names} \ {NoMiddleware}

\* C4 (as claimed): every function stored in the registry, global or named, is the
\* supplied middleware adapted as defineNuxtRouteMiddleware adapts it.
C4_EveryStoredMiddlewareIsAdapted ==
  (StoredGlobal \cup StoredNamed) \subseteq AdaptedMiddleware

\* C4 (amended): every function stored under a name is the supplied middleware adapted as
\* defineNuxtRouteMiddleware adapts it; every function pushed to the global list is the
\* supplied middleware itself, not adapted.
C4_NamedAdaptedGlobalAsSupplied ==
  /\ StoredNamed \subseteq AdaptedMiddleware
  /\ StoredGlobal \subseteq SuppliedMiddleware

C4_Witness ==
  /\ Len(middleware.global) >= 2
  /\ middleware.global[1] = RouteMiddleware("auth")
  /\ middleware.named["a"] = convertToLegacyMiddleware(RouteMiddleware("log"))

\* C5: the flag is set while a wrapped function runs (on its own), and once an adapted
\* middleware invocation has ended, however its wrapped function ended, and no other one
\* is in progress, the flag is not set.
C5_FlagToggledAroundInvocation ==
  /\ \A i \in Invocations : (Running(i) /\ ~inv[i].overlapped) => flag
  /\ (last.kind = "middleware" /\ ~AnyInvocationInProgress) => ~flag

AbortThrowsUsageErrorOnly ==
  /\ last.out.thrown
  /\ last.out.error = UsageError
  /\ last.out.showError = <<>>
  /\ last.out.returned = "none"

C7_ResultMappedOntoContext ==
  (last.kind = "middleware" /\ ~last.outcome.threw)
    => LET v == last.outcome.value
       IN /\ IsError(v) =>
               (last.ctxError = <<v.error>> /\ last.ctxRedirect = <<>> /\ ~last.rejected)
          /\ v.type = "location" =>
               (last.ctxRedirect = <<v>> /\ last.ctxError = <<>>)
          /\ v.type \in {"boolean", "undefined"} =>
               (last.ctxError = <<>> /\ last.ctxRedirect = <<>>)
          /\ ~(last.ctxError # <<>> /\ last.ctxRedirect # <<>>)

\* the call in `last` is not stopped by the external or the protocol check
LastPassesChecks ==
  /\ LastIsExternal => last.options.external
  /\ ~isScriptProtocol(parseURLProtocol(LastToPath))

\* C8: on the server with an SSR event, a navigateTo call that passes the checks calls
\* the 'app:redirected' hook first, sends the redirect only once the hook has resolved,
\* at most once, with options.redirectCode or else 302, and never calls router.push or
\* router.replace.
C8_HookThenSendRedirect ==
  (last.kind = "navigateTo" /\ ~client /\ last.hasEvent /\ LastPassesChecks)
    => LET e == last.out.effects
           sends == EffectsOf(e, {"sendRedirect"})
       IN /\ last.out.thrown = "none"
          /\ Len(e) >= 1
          /\ e[1].op = "callHook"
          /\ Cardinality(sends) <= 1
          /\ (sends # {}) <=> (last.out.hook = "resolved")
          /\ \A k \in sends :
               /\ k > 1
               /\ e[k].status = IF last.options.redirectCode # NoRedirectCode
                                  THEN last.options.redirectCode
                                  ELSE 302
          /\ EffectsOf(e, {"router.push", "router.replace"}) = {}

C8_Witness ==
  /\ last.kind = "navigateTo"
  /\ ~client
  /\ last.hasEvent
  /\ last.options.redirectCode = 301
  /\ last.out.hook = "resolved"
  /\ Len(last.out.effects) = 2
  /\ last.out.effects[2].op = "sendRedirect"
  /\ last.out.effects[2].status = 301

\* the call in `last` is a client-side call with a non-external target and no options.open
LastIsPlainClientCall ==
  /\ last.kind = "navigateTo"
  /\ client
  /\ ~last.options.open
  /\ ~LastIsExternal

LastRouterOp == IF last.options.replace THEN "router.replace" ELSE "router.push"

C10_FlagSetWhileSoleInvocationRuns ==
  \A i \in Invocations : (Running(i) /\ ~inv[i].overlapped) => flag

C10_Witness ==
  \E i \in Invocations : Running(i) /\ inv[i].overlapped /\ ~flag

====
